---------------------------- MODULE Spec2Model ----------------------------
(***************************************************************************)
(* ReaSheets (single-file distribution): the layout resolver and the grid  *)
(* commit engine of Renderer.render.                                       *)
(*                                                                         *)
(* JavaScript values are represented as follows.                           *)
(*   - an object literal is a function over the keys it supplies, so that  *)
(*     a key that is absent differs from a key that is present with null;  *)
(*   - null is NULL; a nullable scalar v is Just(v) (a record), so that it  *)
(*     can be compared with NULL;                                          *)
(*   - the occupancy key `${row}:${col}` is the pair <<row, col>> (the     *)
(*     string is an injective encoding of the pair);                       *)
(*   - an array is a sequence (1-based); a grid is a function over         *)
(*     0-based row and column offsets, as the code indexes it.             *)
(***************************************************************************)
EXTENDS Integers, Sequences, FiniteSets, TLC

VARIABLES
  root,           \* the component tree handed to render
  given,          \* the object literals from which the styles of root were built
  sheet,          \* the target sheet
  pc,             \* "start" before render is called, "done" after it returned,
                  \* "raised" after it threw
  error,          \* the error render threw, NULL if none
  occupancyMap,   \* renderer.occupancyMap of the latest renderer
  resolvedCells,  \* renderer.resolvedCells of the latest renderer
  passes,         \* the container passes of the layout, innermost first
  grids,          \* the grids built by _buildGrids
  renders,        \* the number of calls of render so far
  firstRender     \* what the first call of render produced

vars == <<root, given, sheet, pc, error, occupancyMap, resolvedCells, passes,
          grids, renders, firstRender>>

(***************************************************************************)
(* Bounds of the explored inputs.                                          *)
(***************************************************************************)
MaxSpan == 2

MaxChildren == 2

MaxDepth == 2

\* the leaves of a row of leaves
MaxRow == 3

\* the calls of render on one tree
MaxRenders == 2

\* the latest call at which the sheet may raise
MaxFailAt == 24

(***************************************************************************)
(* Object helpers.                                                         *)
(***************************************************************************)
NULL == [null |-> TRUE]

Just(v) == [just |-> v]

EmptyObject == <<>>

\* a destructuring default: the default applies when the key is not supplied
Get(o, k, d) == IF k \in DOMAIN o THEN o[k] ELSE d

\* { ...a, ...b }
Spread(a, b) ==
  [k \in (DOMAIN a) \cup (DOMAIN b) |-> IF k \in DOMAIN b THEN b[k] ELSE a[k]]

Max(a, b) == IF a >= b THEN a ELSE b

SeqsUpTo(S, n) == UNION {[1..k -> S] : k \in 0..n}

(***************************************************************************)
(* 2. Internal constants.                                                  *)
(***************************************************************************)
DefaultsFONT ==
  [color |-> "black", size |-> 10, family |-> "Arial", bold |-> FALSE,
   italic |-> FALSE, underline |-> FALSE, strikethrough |-> FALSE]

DefaultsALIGNMENT == [horizontal |-> "left", vertical |-> "top"]

DefaultsWRAP == [strategy |-> "OVERFLOW"]

DefaultsROTATION == [angle |-> 0]

(***************************************************************************)
(* 3. Styling system.                                                      *)
(***************************************************************************)
Border(args) ==
  [props |-> [top    |-> Get(args, "top", NULL),
              bottom |-> Get(args, "bottom", NULL),
              left   |-> Get(args, "left", NULL),
              right  |-> Get(args, "right", NULL)]]

Style(args) ==
  [props |-> [backgroundColor |-> Get(args, "backgroundColor", NULL),
              font      |-> Spread(DefaultsFONT, Get(args, "font", EmptyObject)),
              alignment |-> Spread(DefaultsALIGNMENT,
                                   Get(args, "alignment", EmptyObject)),
              wrap      |-> Spread(DefaultsWRAP, Get(args, "wrap", EmptyObject)),
              border    |-> Get(args, "border", Border(EmptyObject)),
              rotation  |-> Spread(DefaultsROTATION,
                                   Get(args, "rotation", EmptyObject)),
              width     |-> Get(args, "width", NULL),
              height    |-> Get(args, "height", NULL)]]

(***************************************************************************)
(* 4. Data types.                                                          *)
(***************************************************************************)
Text(value) == [kind |-> "Text", props |-> [value |-> value]]

\* a candidate of the values array is an object {value, style} or a plain
\* string, written [str |-> s]
Dropdown(args) ==
  LET values == args.values
      isObjectArray == "value" \in DOMAIN values[1]
      plainValues == [i \in 1..Len(values) |->
                        IF isObjectArray THEN values[i].value ELSE values[i].str]
      selected == Get(args, "selected", NULL)
  IN  [kind |-> "Dropdown",
       props |-> [values |-> values, plainValues |-> plainValues,
                  value |-> IF selected # NULL THEN selected.just ELSE plainValues[1],
                  isObjectArray |-> isObjectArray]]

\* the rule bound to the top-left coordinate of the range only
DropdownRuleTopLeft(item, range) ==
  [whenTextEqualTo |-> item.value,
   background |-> item.style.props.backgroundColor,
   fontColor |-> item.style.props.font.color,
   ranges |-> <<[range EXCEPT !.numRows = 1, !.numCols = 1]>>]

\* SpreadsheetApp.newConditionalFormatRule().whenTextEqualTo(..)...build()
DropdownRule(item, range) ==
  [whenTextEqualTo |-> item.value,
   background |-> item.style.props.backgroundColor,
   fontColor |-> item.style.props.font.color,
   ranges |-> <<range>>]

\* type.getRenderDirectives(range): Type (the base, used by Text) and Dropdown
getRenderDirectives(type, range) ==
  IF type.kind = "Dropdown"
    THEN LET validation == [validation |->
                              [requireValueInList |-> type.props.plainValues]]
             rules == IF type.props.isObjectArray
                        THEN [i \in 1..Len(type.props.values) |->
                                DropdownRule(type.props.values[i], range)]
                        ELSE <<>>
         IN  IF Len(rules) > 0
               THEN Spread(validation, [conditionalFormatRules |-> rules])
               ELSE validation
    ELSE EmptyObject

(***************************************************************************)
(* 5. Components.                                                          *)
(***************************************************************************)
HStack(args) ==
  [kind |-> "HStack",
   props |-> [children |-> args.children, style |-> Get(args, "style", NULL)]]

VStack(args) ==
  [kind |-> "VStack",
   props |-> [children |-> args.children, style |-> Get(args, "style", NULL)]]

Cell(args) ==
  [kind |-> "Cell",
   props |-> [type    |-> Get(args, "type", Text("")),
              style   |-> Get(args, "style", NULL),
              note    |-> Get(args, "note", ""),
              colSpan |-> Get(args, "colSpan", 1),
              rowSpan |-> Get(args, "rowSpan", 1)]]


(***************************************************************************)
(* 6. Renderer engine: style merging.                                      *)
(***************************************************************************)
\* the merge without the two width/height overrides: the spread alone decides
mergeStylesSpreadOnly(inheritedStyle, ownStyle) ==
  IF inheritedStyle = NULL /\ ownStyle = NULL THEN Style(EmptyObject)
  ELSE IF inheritedStyle = NULL THEN ownStyle
  ELSE IF ownStyle = NULL THEN inheritedStyle
  ELSE
    LET inh == inheritedStyle.props
        own == ownStyle.props
    IN  Style(Spread(Spread(inh, own),
                 [font      |-> Spread(inh.font, own.font),
                  alignment |-> Spread(inh.alignment, own.alignment),
                  wrap      |-> Spread(inh.wrap, own.wrap),
                  border    |-> Border(Spread(inh.border.props, own.border.props)),
                  rotation  |-> Spread(inh.rotation, own.rotation)]))

mergeStyles(inheritedStyle, ownStyle) ==
  IF inheritedStyle = NULL /\ ownStyle = NULL THEN Style(EmptyObject)
  ELSE IF inheritedStyle = NULL THEN ownStyle
  ELSE IF ownStyle = NULL THEN inheritedStyle
  ELSE
    LET inh == inheritedStyle.props
        own == ownStyle.props
        mergedProps ==
          Spread(Spread(inh, own),
                 [font      |-> Spread(inh.font, own.font),
                  alignment |-> Spread(inh.alignment, own.alignment),
                  wrap      |-> Spread(inh.wrap, own.wrap),
                  border    |-> Border(Spread(inh.border.props, own.border.props)),
                  rotation  |-> Spread(inh.rotation, own.rotation)])
        withWidth ==
          IF inh.width # NULL
            THEN [mergedProps EXCEPT !["width"] = inh.width] ELSE mergedProps
        withHeight ==
          IF inh.height # NULL
            THEN [withWidth EXCEPT !["height"] = inh.height] ELSE withWidth
    IN  Style(withHeight)

(***************************************************************************)
(* 5. Components: the layout cursor and the three render methods.  The     *)
(* renderer's occupancyMap is threaded through the calls; every render     *)
(* returns the resolved cells, the occupancy map it leaves, and a record   *)
(* of the container passes made (one step per child: the cursor before     *)
(* the occupancy check, the start position handed to the child, the        *)
(* rectangles the child resolved, and the cursor after the child).         *)
(***************************************************************************)
RECURSIVE advanceToNextUnoccupied(_, _, _)
advanceToNextUnoccupied(cursor, occ, direction) ==
  IF <<cursor.row, cursor.col>> \in occ
    THEN advanceToNextUnoccupied(
           IF direction = "horizontal"
             THEN [cursor EXCEPT !.col = @ + 1]
             ELSE [cursor EXCEPT !.row = @ + 1],
           occ, direction)
    ELSE cursor

\* the cursor that leaves one column or row free after every child
updateAfterChildSkipping(cursor, childMaxRow, childMaxCol, direction) ==
  IF direction = "horizontal"
    THEN [cursor EXCEPT !.col = childMaxCol + 2]
    ELSE [cursor EXCEPT !.row = childMaxRow + 2]

updateAfterChild(cursor, childMaxRow, childMaxCol, direction) ==
  IF direction = "horizontal"
    THEN [cursor EXCEPT !.col = childMaxCol + 1]
    ELSE [cursor EXCEPT !.row = childMaxRow + 1]

Rect(c) ==
  [row |-> c.row, col |-> c.col,
   rowSpan |-> c.descriptor.props.rowSpan, colSpan |-> c.descriptor.props.colSpan]

Rects(cells) == [i \in 1..Len(cells) |-> Rect(cells[i])]

SpanOf(row, col, rowSpan, colSpan) ==
  {<<row + r, col + c>> : r \in 0..(rowSpan - 1), c \in 0..(colSpan - 1)}

\* the column of the rightmost start of the child's cells, the spans left out
RECURSIVE ChildMaxColNoSpan(_, _, _)
ChildMaxColNoSpan(childCells, i, childMaxCol) ==
  IF i > Len(childCells) THEN childMaxCol
  ELSE ChildMaxColNoSpan(childCells, i + 1, Max(childMaxCol, childCells[i].col))

RECURSIVE ChildMaxCol(_, _, _)
ChildMaxCol(childCells, i, childMaxCol) ==
  IF i > Len(childCells) THEN childMaxCol
  ELSE ChildMaxCol(childCells, i + 1,
         Max(childMaxCol,
             childCells[i].col + childCells[i].descriptor.props.colSpan - 1))

\* the row of the lowest start of the child's cells, the spans left out
RECURSIVE ChildMaxRowNoSpan(_, _, _)
ChildMaxRowNoSpan(childCells, i, childMaxRow) ==
  IF i > Len(childCells) THEN childMaxRow
  ELSE ChildMaxRowNoSpan(childCells, i + 1, Max(childMaxRow, childCells[i].row))

RECURSIVE ChildMaxRow(_, _, _)
ChildMaxRow(childCells, i, childMaxRow) ==
  IF i > Len(childCells) THEN childMaxRow
  ELSE ChildMaxRow(childCells, i + 1,
         Max(childMaxRow,
             childCells[i].row + childCells[i].descriptor.props.rowSpan - 1))

\* the leaf that keeps the merged style as its own style
CellRenderStoringStyle(node, occ, position, inheritedStyle) ==
  LET finalStyle == IF node.props.style # NULL THEN node.props.style
                    ELSE Style(EmptyObject)
      mergedStyle == mergeStyles(inheritedStyle, finalStyle)
      stored == [node EXCEPT !.props.style = mergedStyle]
      resolvedCell ==
        [row |-> position.row, col |-> position.col,
         descriptor |-> [kind |-> node.kind, props |-> stored.props]]
  IN  [resolved |-> <<resolvedCell>>,
       occ |-> occ \cup SpanOf(position.row, position.col,
                               node.props.rowSpan, node.props.colSpan),
       passes |-> <<>>,
       node |-> stored,
       error |-> NULL]

\* the leaf that marks only its top-left coordinate as occupied
CellRenderMarkingTopLeft(node, occ, position, inheritedStyle) ==
  LET finalStyle == IF node.props.style # NULL THEN node.props.style
                    ELSE Style(EmptyObject)
      mergedStyle == mergeStyles(inheritedStyle, finalStyle)
      resolvedCell ==
        [row |-> position.row, col |-> position.col,
         descriptor |-> [kind |-> node.kind,
                         props |-> [node.props EXCEPT !.style = mergedStyle]]]
  IN  [resolved |-> <<resolvedCell>>,
       occ |-> occ \cup {<<position.row, position.col>>},
       passes |-> <<>>,
       node |-> node,
       error |-> NULL]

CellRender(node, occ, position, inheritedStyle) ==
  LET finalStyle == IF node.props.style # NULL THEN node.props.style
                    ELSE Style(EmptyObject)
      mergedStyle == mergeStyles(inheritedStyle, finalStyle)
      resolvedCell ==
        [row |-> position.row, col |-> position.col,
         descriptor |-> [kind |-> node.kind,
                         props |-> [node.props EXCEPT !.style = mergedStyle]]]
  IN  [resolved |-> <<resolvedCell>>,
       occ |-> occ \cup SpanOf(position.row, position.col,
                               node.props.rowSpan, node.props.colSpan),
       passes |-> <<>>,
       node |-> node,
       error |-> NULL]

\* a child that is not a layout node has no render method: the call
\* `child.render(...)` throws a TypeError and nothing else happens
InvalidRender(node, occ, position, inheritedStyle) ==
  [resolved |-> <<>>, occ |-> occ, passes |-> <<>>, node |-> node,
   error |-> Just("TypeError")]

RECURSIVE ComponentRender(_, _, _, _)
RECURSIVE HStackLoop(_, _, _, _, _)
RECURSIVE VStackLoop(_, _, _, _, _)

\* the loop of HStack.render putting the cells of a child before the cells
\* of the children rendered earlier
HStackLoopPrepending(children, i, cursor, containerStyle, st) ==
  IF i > Len(children) THEN st
  ELSE
    LET childStartPos == advanceToNextUnoccupied(cursor, st.occ, "horizontal")
        child == ComponentRender(children[i], st.occ, childStartPos, containerStyle)
        childCells == child.resolved
        childMaxCol == ChildMaxCol(childCells, 1, 0)
        after == updateAfterChild(childStartPos, 0, childMaxCol, "horizontal")
        tail == SubSeq(children, i + 1, Len(children))
    IN  IF child.error # NULL
          THEN [st EXCEPT !.occ = child.occ,
                          !.children = (@ \o <<child.node>>) \o tail,
                          !.passes = @ \o child.passes,
                          !.error = child.error]
          ELSE HStackLoop(children, i + 1, after, containerStyle,
                 [resolved |-> childCells \o st.resolved,
                  occ |-> child.occ,
                  steps |-> Append(st.steps,
                              [cursor |-> cursor, start |-> childStartPos,
                               rects |-> Rects(childCells), after |-> after,
                               occ |-> st.occ, occAfter |-> child.occ]),
                  passes |-> st.passes \o child.passes,
                  children |-> Append(st.children, child.node),
                  error |-> NULL])

\* the body of `for (const child of this.props.children)` of HStack.render,
\* from child i on; st carries resolved, occ, the steps of this pass, the
\* passes of the containers below, the children as the calls leave them, and
\* the error thrown by a child (the loop ends there)
HStackLoop(children, i, cursor, containerStyle, st) ==
  IF i > Len(children) THEN st
  ELSE
    LET childStartPos == advanceToNextUnoccupied(cursor, st.occ, "horizontal")
        child == ComponentRender(children[i], st.occ, childStartPos, containerStyle)
        childCells == child.resolved
        childMaxCol == ChildMaxCol(childCells, 1, 0)
        after == updateAfterChild(childStartPos, 0, childMaxCol, "horizontal")
        tail == SubSeq(children, i + 1, Len(children))
    IN  IF child.error # NULL
          THEN [st EXCEPT !.occ = child.occ,
                          !.children = (@ \o <<child.node>>) \o tail,
                          !.passes = @ \o child.passes,
                          !.error = child.error]
          ELSE HStackLoop(children, i + 1, after, containerStyle,
                 [resolved |-> st.resolved \o childCells,
                  occ |-> child.occ,
                  steps |-> Append(st.steps,
                              [cursor |-> cursor, start |-> childStartPos,
                               rects |-> Rects(childCells), after |-> after,
                               occ |-> st.occ, occAfter |-> child.occ]),
                  passes |-> st.passes \o child.passes,
                  children |-> Append(st.children, child.node),
                  error |-> NULL])

HStackRender(node, occ, position, inheritedStyle) ==
  LET containerStyle == IF node.props.style # NULL
                          THEN mergeStyles(inheritedStyle, node.props.style)
                          ELSE inheritedStyle
      st == HStackLoop(node.props.children, 1, position, containerStyle,
              [resolved |-> <<>>, occ |-> occ, steps |-> <<>>, passes |-> <<>>,
               children |-> <<>>, error |-> NULL])
  IN  [resolved |-> st.resolved, occ |-> st.occ,
       passes |-> Append(st.passes,
                    [direction |-> "horizontal", position |-> position,
                     steps |-> st.steps]),
       node |-> [node EXCEPT !.props.children = st.children],
       error |-> st.error]

VStackLoop(children, i, cursor, containerStyle, st) ==
  IF i > Len(children) THEN st
  ELSE
    LET childStartPos == advanceToNextUnoccupied(cursor, st.occ, "vertical")
        child == ComponentRender(children[i], st.occ, childStartPos, containerStyle)
        childCells == child.resolved
        childMaxRow == ChildMaxRow(childCells, 1, 0)
        after == updateAfterChild(childStartPos, childMaxRow, 0, "vertical")
        tail == SubSeq(children, i + 1, Len(children))
    IN  IF child.error # NULL
          THEN [st EXCEPT !.occ = child.occ,
                          !.children = (@ \o <<child.node>>) \o tail,
                          !.passes = @ \o child.passes,
                          !.error = child.error]
          ELSE VStackLoop(children, i + 1, after, containerStyle,
                 [resolved |-> st.resolved \o childCells,
                  occ |-> child.occ,
                  steps |-> Append(st.steps,
                              [cursor |-> cursor, start |-> childStartPos,
                               rects |-> Rects(childCells), after |-> after,
                               occ |-> st.occ, occAfter |-> child.occ]),
                  passes |-> st.passes \o child.passes,
                  children |-> Append(st.children, child.node),
                  error |-> NULL])

VStackRender(node, occ, position, inheritedStyle) ==
  LET containerStyle == IF node.props.style # NULL
                          THEN mergeStyles(inheritedStyle, node.props.style)
                          ELSE inheritedStyle
      st == VStackLoop(node.props.children, 1, position, containerStyle,
              [resolved |-> <<>>, occ |-> occ, steps |-> <<>>, passes |-> <<>>,
               children |-> <<>>, error |-> NULL])
  IN  [resolved |-> st.resolved, occ |-> st.occ,
       passes |-> Append(st.passes,
                    [direction |-> "vertical", position |-> position,
                     steps |-> st.steps]),
       node |-> [node EXCEPT !.props.children = st.children],
       error |-> st.error]

\* the dispatch with a child that is not a layout node passed over in silence
ComponentRenderSkipping(node, occ, position, inheritedStyle) ==
  CASE node.kind = "Cell"   -> CellRender(node, occ, position, inheritedStyle)
    [] node.kind = "HStack" -> HStackRender(node, occ, position, inheritedStyle)
    [] node.kind = "VStack" -> VStackRender(node, occ, position, inheritedStyle)
    [] OTHER                -> [resolved |-> <<>>, occ |-> occ, passes |-> <<>>,
                                node |-> node, error |-> NULL]

\* child.render(renderer, position, inheritedStyle): dynamic dispatch
ComponentRender(node, occ, position, inheritedStyle) ==
  CASE node.kind = "Cell"   -> CellRender(node, occ, position, inheritedStyle)
    [] node.kind = "HStack" -> HStackRender(node, occ, position, inheritedStyle)
    [] node.kind = "VStack" -> VStackRender(node, occ, position, inheritedStyle)
    [] OTHER                -> InvalidRender(node, occ, position, inheritedStyle)

(***************************************************************************)
(* The target sheet: the calls issued on it in order, the conditional      *)
(* format rules installed on it, and the content of the coordinates that   *)
(* are observed (cells: coordinate -> property -> value).  A range handle  *)
(* is the rectangle it addresses.                                          *)
(*                                                                         *)
(* The sheet raises at its failAt-th call (never when failAt = 0).  The    *)
(* renderer has no try/catch, so once a call has raised no later statement *)
(* of the render runs: every later call leaves the sheet as it is.         *)
(***************************************************************************)
\* the same call issued again after it raised
CallRetrying(sh, op, at, arg) ==
  LET call == [op |-> op, at |-> at, arg |-> arg]
  IN  IF sh.raised THEN sh
      ELSE IF Len(sh.calls) + 1 = sh.failAt
        THEN [sh EXCEPT !.calls = Append(Append(@, call), call)]
      ELSE [sh EXCEPT !.calls = Append(@, call)]

Call(sh, op, at, arg) ==
  LET call == [op |-> op, at |-> at, arg |-> arg]
  IN  IF sh.raised THEN sh
      ELSE IF Len(sh.calls) + 1 = sh.failAt
        THEN [sh EXCEPT !.calls = Append(@, call), !.raised = TRUE]
      ELSE [sh EXCEPT !.calls = Append(@, call)]

InRange(p, range) ==
  /\ p[1] \in range.row..(range.row + range.numRows - 1)
  /\ p[2] \in range.col..(range.col + range.numCols - 1)

\* the properties of a coordinate that range.clear() resets: the content and
\* the formats, not the note nor the data validation
ClearedProps ==
  {"values", "backgrounds", "fontColors", "fontSizes", "fontWeights",
   "fontStyles", "fontLines", "horizontalAlignments", "verticalAlignments",
   "wrapStrategies", "numberFormats", "rotations", "borders"}

NoBorders == [top |-> NULL, bottom |-> NULL, left |-> NULL, right |-> NULL]

\* what a cleared coordinate holds for property k
Blank(k) ==
  CASE k \in {"wrapStrategies", "numberFormats"} -> ""
    [] k = "rotations" -> 0
    [] k = "borders" -> NoBorders
    [] OTHER -> NULL

\* range.clear({contentsOnly: true})
ClearContentsOnly(sh, range) ==
  LET s1 == Call(sh, "clear", range, <<>>)
      old == s1.cells
  IN  IF s1.raised THEN s1
      ELSE [s1 EXCEPT !.cells =
              [p \in DOMAIN old |->
                 IF InRange(p, range)
                   THEN [old[p] EXCEPT !["values"] = Blank("values")]
                   ELSE old[p]]]

\* range.clear()
Clear(sh, range) ==
  LET s1 == Call(sh, "clear", range, <<>>)
      old == s1.cells
  IN  IF s1.raised THEN s1
      ELSE [s1 EXCEPT !.cells =
              [p \in DOMAIN old |->
                 IF InRange(p, range)
                   THEN [k \in DOMAIN old[p] |->
                           IF k \in ClearedProps THEN Blank(k) ELSE old[p][k]]
                   ELSE old[p]]]

\* range.setXs(grid): every coordinate of the range takes the grid's entry
SetGrid(sh, op, range, name, grid) ==
  LET s1 == Call(sh, op, range, <<name>>)
      old == s1.cells
  IN  IF s1.raised THEN s1
      ELSE [s1 EXCEPT !.cells =
              [p \in DOMAIN old |->
                 IF InRange(p, range)
                   THEN [old[p] EXCEPT
                           ![name] = grid[p[1] - range.row][p[2] - range.col]]
                   ELSE old[p]]]

\* which sides of coordinate p the call range.setBorder(..) with one flag set
\* draws: top, bottom, left and right are the outer edges of the range,
\* vertical the edges between its columns
SidesDrawn(p, range, flag) ==
  LET firstCol == p[2] = range.col
      lastCol == p[2] = range.col + range.numCols - 1
      firstRow == p[1] = range.row
      lastRow == p[1] = range.row + range.numRows - 1
  IN  CASE flag = "top"    -> IF firstRow THEN {"top"} ELSE {}
        [] flag = "bottom" -> IF lastRow THEN {"bottom"} ELSE {}
        [] flag = "left"   -> IF firstCol THEN {"left"} ELSE {}
        [] flag = "right"  -> IF lastCol THEN {"right"} ELSE {}
        [] flag = "vertical" ->
             (IF firstCol THEN {} ELSE {"left"})
               \cup (IF lastCol THEN {} ELSE {"right"})

\* range.setBorder(top, left, bottom, right, vertical, horizontal, color, style)
SetBorder(sh, range, flag, color, thickness) ==
  LET s1 == Call(sh, "setBorder", range,
                 [side |-> flag, color |-> color, thickness |-> thickness])
      old == s1.cells
      line == [color |-> color, thickness |-> thickness]
      drawn(p) ==
        [k \in DOMAIN old[p]["borders"] |->
           IF k \in SidesDrawn(p, range, flag) THEN line ELSE old[p]["borders"][k]]
  IN  IF s1.raised THEN s1
      ELSE [s1 EXCEPT !.cells =
              [p \in DOMAIN old |->
                 IF InRange(p, range)
                   THEN [old[p] EXCEPT !["borders"] = drawn(p)]
                   ELSE old[p]]]

Range(row, col, numRows, numCols) ==
  [row |-> row, col |-> col, numRows |-> numRows, numCols |-> numCols]

getRange(sh, row, col, numRows, numCols) ==
  Call(sh, "getRange", Range(row, col, numRows, numCols), <<>>)

\* JavaScript false where it is stored next to null and objects
JSFalse == [false |-> TRUE]

Truthy(v) == v # NULL /\ v # JSFalse

\* the keys of an object with integer keys, in the ascending order in which
\* `for (const k in obj)` visits them
RECURSIVE KeysInOrder(_)
KeysInOrder(S) ==
  IF S = {} THEN <<>>
  ELSE LET m == CHOOSE x \in S : \A y \in S : x <= y
       IN  <<m>> \o KeysInOrder(S \ {m})

(***************************************************************************)
(* 6. Renderer engine: the commit.                                         *)
(***************************************************************************)
areBordersEqual(b1, b2) ==
  IF b1 = b2 THEN TRUE
  ELSE IF ~Truthy(b1) \/ ~Truthy(b2) THEN FALSE
  ELSE \A side \in {"top", "bottom", "left", "right"} :
         LET s1 == b1[side]
             s2 == b2[side]
         IN  \/ s1 = s2
             \/ /\ Truthy(s1) /\ Truthy(s2)
                /\ s1.color = s2.color /\ s1.thickness = s2.thickness

\* the cells are not empty when _commit calls this, so the minima are those
\* of the cells and not the initial Infinity
calculateBounds(cells) ==
  LET idx == 1..Len(cells)
      rowSpan(i) == cells[i].descriptor.props.rowSpan
      colSpan(i) == cells[i].descriptor.props.colSpan
      minRow == CHOOSE m \in {cells[i].row : i \in idx} :
                  \A i \in idx : m <= cells[i].row
      minCol == CHOOSE m \in {cells[i].col : i \in idx} :
                  \A i \in idx : m <= cells[i].col
      maxRow == CHOOSE m \in {cells[i].row + rowSpan(i) - 1 : i \in idx} \cup {0} :
                  /\ m >= 0
                  /\ \A i \in idx : m >= cells[i].row + rowSpan(i) - 1
      maxCol == CHOOSE m \in {cells[i].col + colSpan(i) - 1 : i \in idx} \cup {0} :
                  /\ m >= 0
                  /\ \A i \in idx : m >= cells[i].col + colSpan(i) - 1
      numRows == maxRow - minRow + 1
      numCols == maxCol - minCol + 1
  IN  IF numRows <= 0 \/ numCols <= 0 THEN NULL
      ELSE [minRow |-> minRow, maxRow |-> maxRow, minCol |-> minCol,
            maxCol |-> maxCol, numRows |-> numRows, numCols |-> numCols]

createGrid(numRows, numCols, fill) ==
  [r \in 0..(numRows - 1) |-> [c \in 0..(numCols - 1) |-> fill]]

extractCellData(type, style, note, directives) ==
  LET font == style.props.font
  IN  [value      |-> type.props.value,
       note       |-> note,
       background |-> style.props.backgroundColor,
       fontColor  |-> font.color,
       fontSize   |-> font.size,
       fontWeight |-> IF font.bold THEN "bold" ELSE "normal",
       fontStyle  |-> IF font.italic THEN "italic" ELSE "normal",
       fontLine   |-> IF font.underline THEN Just("underline")
                      ELSE IF font.strikethrough THEN Just("line-through")
                      ELSE NULL,
       hAlign     |-> style.props.alignment.horizontal,
       vAlign     |-> style.props.alignment.vertical,
       wrap       |-> style.props.wrap.strategy,
       validation |-> Get(directives, "validation", NULL),
       border     |-> style.props.border.props,
       numberFormat |-> Get(directives, "numberFormat", NULL),
       rotation   |-> style.props.rotation.angle]

fillGridCell(g, r, c, cellData, rOffset, cOffset, rowSpan, colSpan) ==
  LET g1 == [g EXCEPT
        !.values[r][c] = IF rOffset = 0 /\ cOffset = 0
                           THEN Just(cellData.value) ELSE Just(""),
        !.notes[r][c] = Just(cellData.note),
        !.backgrounds[r][c] = cellData.background,
        !.fontColors[r][c] = Just(cellData.fontColor),
        !.fontSizes[r][c] = Just(cellData.fontSize),
        !.fontWeights[r][c] = Just(cellData.fontWeight),
        !.fontStyles[r][c] = Just(cellData.fontStyle),
        !.fontLines[r][c] = cellData.fontLine,
        !.horizontalAlignments[r][c] = Just(cellData.hAlign),
        !.verticalAlignments[r][c] = Just(cellData.vAlign),
        !.wrapStrategies[r][c] = cellData.wrap,
        !.validations[r][c] = cellData.validation,
        !.rotations[r][c] = cellData.rotation,
        !.borders[r][c] =
            [top    |-> IF rOffset = 0 THEN cellData.border.top ELSE JSFalse,
             bottom |-> IF rOffset = rowSpan - 1
                          THEN cellData.border.bottom ELSE JSFalse,
             left   |-> IF cOffset = 0 THEN cellData.border.left ELSE JSFalse,
             right  |-> IF cOffset = colSpan - 1
                          THEN cellData.border.right ELSE JSFalse]]
  IN  IF cellData.numberFormat # NULL
        THEN [g1 EXCEPT !.numberFormats[r][c] = cellData.numberFormat.just]
        ELSE g1

\* the two nested loops over rOffset and cOffset of _populateGridsForCell,
\* from the k-th sub-cell (row-major) on
RECURSIVE FillSpan(_, _, _, _, _, _)
FillSpan(g, cell, cellData, minRow, minCol, k) ==
  LET rowSpan == cell.descriptor.props.rowSpan
      colSpan == cell.descriptor.props.colSpan
      rOffset == k \div colSpan
      cOffset == k % colSpan
  IN  IF k >= rowSpan * colSpan THEN g
      ELSE FillSpan(
             fillGridCell(g, cell.row - minRow + rOffset, cell.col - minCol + cOffset,
                          cellData, rOffset, cOffset, rowSpan, colSpan),
             cell, cellData, minRow, minCol, k + 1)

\* st = [grids, sheet]
populateGridsForCell(cell, st, minRow, minCol) ==
  LET props == cell.descriptor.props
      rowSpan == props.rowSpan
      colSpan == props.colSpan
      range == Range(cell.row, cell.col, rowSpan, colSpan)
      sh1 == getRange(st.sheet, cell.row, cell.col, rowSpan, colSpan)
      directives == getRenderDirectives(props.type, range)
      g1 == IF props.style.props.width # NULL
              THEN [st.grids EXCEPT
                      !.widths = Spread(@, cell.col :> props.style.props.width.just)]
              ELSE st.grids
      g2 == IF props.style.props.height # NULL
              THEN [g1 EXCEPT
                      !.heights = Spread(@, cell.row :> props.style.props.height.just)]
              ELSE g1
      cellData == extractCellData(props.type, props.style, props.note, directives)
      g3 == IF "conditionalFormatRules" \in DOMAIN directives
              THEN [g2 EXCEPT !.conditionalFormats =
                                 @ \o directives.conditionalFormatRules]
              ELSE g2
      g4 == FillSpan(g3, cell, cellData, minRow, minCol, 0)
  IN  IF rowSpan > 1 \/ colSpan > 1
        THEN [grids |-> [g4 EXCEPT !.merges = Append(@, range)],
              sheet |-> getRange(sh1, cell.row, cell.col, rowSpan, colSpan)]
        ELSE [grids |-> g4, sheet |-> sh1]

RECURSIVE PopulateAll(_, _, _, _, _)
PopulateAll(cells, i, st, minRow, minCol) ==
  IF i > Len(cells) \/ st.sheet.raised THEN st
  ELSE PopulateAll(cells, i + 1,
                   populateGridsForCell(cells[i], st, minRow, minCol),
                   minRow, minCol)

buildGrids(sh, cells, bounds) ==
  LET grid(fill) == createGrid(bounds.numRows, bounds.numCols, fill)
      g0 == [values |-> grid(NULL), backgrounds |-> grid(NULL),
             fontColors |-> grid(NULL), fontSizes |-> grid(NULL),
             fontWeights |-> grid(NULL), fontStyles |-> grid(NULL),
             fontLines |-> grid(NULL), horizontalAlignments |-> grid(NULL),
             verticalAlignments |-> grid(NULL),
             wrapStrategies |-> grid("OVERFLOW"), notes |-> grid(NULL),
             validations |-> grid(NULL), numberFormats |-> grid("General"),
             rotations |-> grid(0), borders |-> grid(JSFalse),
             widths |-> EmptyObject, heights |-> EmptyObject,
             merges |-> <<>>, conditionalFormats |-> <<>>]
  IN  PopulateAll(cells, 1, [grids |-> g0, sheet |-> sh],
                  bounds.minRow, bounds.minCol)

StyleSetters ==
  << <<"setNumberFormats", "numberFormats">>,
     <<"setDataValidations", "validations">>,
     <<"setValues", "values">>,
     <<"setNotes", "notes">>,
     <<"setBackgrounds", "backgrounds">>,
     <<"setFontColors", "fontColors">>,
     <<"setFontSizes", "fontSizes">>,
     <<"setFontWeights", "fontWeights">>,
     <<"setFontStyles", "fontStyles">>,
     <<"setFontLines", "fontLines">>,
     <<"setHorizontalAlignments", "horizontalAlignments">>,
     <<"setVerticalAlignments", "verticalAlignments">>,
     <<"setWrapStrategies", "wrapStrategies">> >>

\* each setter is handed the grid named in its argument
RECURSIVE CallSetters(_, _, _, _, _)
CallSetters(sh, range, g, setters, i) ==
  IF i > Len(setters) \/ sh.raised THEN sh
  ELSE CallSetters(SetGrid(sh, setters[i][1], range, setters[i][2],
                           g[setters[i][2]]),
                   range, g, setters, i + 1)

applyStyles(sh, range, g) == CallSetters(sh, range, g, StyleSetters, 1)

RECURSIVE CallDimensions(_, _, _, _, _)
CallDimensions(sh, op, dims, keys, i) ==
  IF i > Len(keys) \/ sh.raised THEN sh
  ELSE CallDimensions(Call(sh, op, <<keys[i]>>, <<dims[keys[i]]>>),
                      op, dims, keys, i + 1)

\* the dimensions without the loop over the heights
applyDimensionsWidthsOnly(sh, widths, heights) ==
  CallDimensions(sh, "setColumnWidth", widths, KeysInOrder(DOMAIN widths), 1)

applyDimensions(sh, widths, heights) ==
  LET sh1 == CallDimensions(sh, "setColumnWidth", widths,
                            KeysInOrder(DOMAIN widths), 1)
  IN  CallDimensions(sh1, "setRowHeight", heights, KeysInOrder(DOMAIN heights), 1)

applyRotations(sh, range, rotations) ==
  LET hasRotation == \E r \in DOMAIN rotations :
                       \E c \in DOMAIN rotations[r] : rotations[r][c] # 0
  IN  IF hasRotation
        THEN SetGrid(sh, "setTextRotations", range, "rotations", rotations)
        ELSE sh

RECURSIVE RunLength(_, _, _, _, _)
RunLength(borders, r, c, len, numCols) ==
  IF c + len < numCols /\ areBordersEqual(borders[r][c], borders[r][c + len])
    THEN RunLength(borders, r, c, len + 1, numCols)
    ELSE len

\* the setBorder calls made for one run
BorderCalls(sh, range, borderInfo, len) ==
  LET side(s, name) ==
        IF Truthy(borderInfo[name])
          THEN SetBorder(s, range, name, borderInfo[name].color,
                         borderInfo[name].thickness)
          ELSE s
      sh4 == side(side(side(side(sh, "top"), "bottom"), "left"), "right")
      left == borderInfo.left
      right == borderInfo.right
  IN  IF /\ len > 1
         /\ Truthy(left) /\ Truthy(right)
         /\ left.color = right.color /\ left.thickness = right.thickness
        THEN SetBorder(sh4, range, "vertical", left.color, left.thickness)
        ELSE sh4

\* the loops of _applyBorders from grid row r, column c on
RECURSIVE BorderScan(_, _, _, _, _)
BorderScan(sh, bounds, borders, r, c) ==
  IF r >= bounds.numRows \/ sh.raised THEN sh
  ELSE IF c >= bounds.numCols THEN BorderScan(sh, bounds, borders, r + 1, 0)
  ELSE IF ~Truthy(borders[r][c]) THEN BorderScan(sh, bounds, borders, r, c + 1)
  ELSE
    LET len == RunLength(borders, r, c, 1, bounds.numCols)
        range == Range(bounds.minRow + r, bounds.minCol + c, 1, len)
        sh1 == getRange(sh, bounds.minRow + r, bounds.minCol + c, 1, len)
    IN  BorderScan(BorderCalls(sh1, range, borders[r][c], len),
                   bounds, borders, r, c + len)

applyBorders(sh, bounds, borders) == BorderScan(sh, bounds, borders, 0, 0)

\* sheet.setConditionalFormatRules(rules) installs rules as the sheet's rules
applyConditionalFormats(sh, conditionalFormats) ==
  IF Len(conditionalFormats) > 0
    THEN LET s1 == Call(sh, "setConditionalFormatRules", <<>>, conditionalFormats)
         IN  IF s1.raised THEN s1 ELSE [s1 EXCEPT !.rules = conditionalFormats]
    ELSE sh

\* the merges of the ranges of more than one column only
RECURSIVE applyMergesWideOnly(_, _, _)
applyMergesWideOnly(sh, merges, i) ==
  IF i > Len(merges) \/ sh.raised THEN sh
  ELSE applyMergesWideOnly(IF merges[i].numCols > 1
                             THEN Call(sh, "merge", merges[i], <<>>) ELSE sh,
                           merges, i + 1)

RECURSIVE applyMerges(_, _, _)
applyMerges(sh, merges, i) ==
  IF i > Len(merges) \/ sh.raised THEN sh
  ELSE applyMerges(Call(sh, "merge", merges[i], <<>>), merges, i + 1)

\* the statements of _commit after _buildGrids, the merges made before the
\* borders
applyGridsMergesBeforeBorders(sh, fullRange, bounds, g) ==
  applyConditionalFormats(
    applyBorders(
      applyMerges(
        applyRotations(
          applyDimensions(applyStyles(sh, fullRange, g), g.widths, g.heights),
          fullRange, g.rotations),
        g.merges, 1),
      bounds, g.borders),
    g.conditionalFormats)

\* the statements of _commit after _buildGrids, in their order: styles,
\* dimensions, rotations, borders, conditional formats, merges
applyGrids(sh, fullRange, bounds, g) ==
  applyMerges(
    applyConditionalFormats(
      applyBorders(
        applyRotations(
          applyDimensions(applyStyles(sh, fullRange, g), g.widths, g.heights),
          fullRange, g.rotations),
        bounds, g.borders),
      g.conditionalFormats),
    g.merges, 1)

\* _commit after _buildGrids has returned built = [grids, sheet]
commitBuilt(built, fullRange, bounds) ==
  IF built.sheet.raised THEN [sheet |-> built.sheet, grids |-> NULL]
  ELSE [sheet |-> applyGrids(built.sheet, fullRange, bounds, built.grids),
        grids |-> built.grids]

\* _commit from _buildGrids on; cleared is the sheet after fullRange.clear()
commitCleared(cleared, cells, fullRange, bounds) ==
  IF cleared.raised THEN [sheet |-> cleared, grids |-> NULL]
  ELSE commitBuilt(buildGrids(cleared, cells, bounds), fullRange, bounds)

\* _commit once the bounds are known
commitBounds(sh, cells, bounds) ==
  IF bounds = NULL THEN [sheet |-> sh, grids |-> NULL]
  ELSE commitCleared(
         Clear(getRange(sh, bounds.minRow, bounds.minCol,
                        bounds.numRows, bounds.numCols),
               Range(bounds.minRow, bounds.minCol, bounds.numRows, bounds.numCols)),
         cells,
         Range(bounds.minRow, bounds.minCol, bounds.numRows, bounds.numCols),
         bounds)

\* _commit once the resolved cells are known not to be empty
commitResolved(sh, cells) == commitBounds(sh, cells, calculateBounds(cells))

\* the commit without the early return: an empty list clears the cell (1,1)
commitClearingWhenEmpty(sh, cells) ==
  IF Len(cells) = 0
    THEN [sheet |-> Clear(getRange(sh, 1, 1, 1, 1), Range(1, 1, 1, 1)),
          grids |-> NULL]
    ELSE commitResolved(sh, cells)

\* _commit: returns the sheet and the grids it built (NULL when it returns
\* or raises before it has built them); the statements after a call that
\* raised do not run
commit(sh, cells) ==
  IF Len(cells) = 0 THEN [sheet |-> sh, grids |-> NULL]
  ELSE commitResolved(sh, cells)

(***************************************************************************)
(* Input trees.                                                            *)
(***************************************************************************)
Leaf(rowSpan, colSpan) ==
  Cell([type |-> Text("x"), colSpan |-> colSpan, rowSpan |-> rowSpan])

SpanCells == {Leaf(r, c) : r \in 1..MaxSpan, c \in 1..MaxSpan}

RECURSIVE Trees(_)
Trees(d) ==
  IF d = 0
    THEN SpanCells \cup {HStack([children |-> <<>>]), VStack([children |-> <<>>])}
    ELSE LET sub == Trees(d - 1)
         IN  sub \cup {HStack([children |-> ch]) : ch \in SeqsUpTo(sub, MaxChildren)}
                 \cup {VStack([children |-> ch]) : ch \in SeqsUpTo(sub, MaxChildren)}

\* a two-leaf stack, a leaf, and a stack that starts with an empty container
ResetTrees ==
  LET Stack(k, ch) == IF k = "HStack" THEN HStack([children |-> ch])
                      ELSE VStack([children |-> ch])
      Kinds == {"HStack", "VStack"}
  IN  {Stack(k0, <<Stack(k1, <<a, b>>), c, Stack(k2, <<Stack(k3, <<>>), d>>)>>) :
         k0 \in Kinds, k1 \in Kinds, k2 \in Kinds, k3 \in Kinds,
         a \in SpanCells, b \in SpanCells, c \in SpanCells, d \in SpanCells}

LayoutTrees == Trees(MaxDepth) \cup ResetTrees

\* Styles: the object literals handed to the Style constructor
BorderSideA == [color |-> "black", thickness |-> "SOLID"]

BorderSideB == [color |-> "red", thickness |-> "DASHED"]

StyleArgs ==
  LET BgOpts == {EmptyObject, [backgroundColor |-> Just("yellow")]}
      PaintOpts == {EmptyObject,
                    [font |-> [bold |-> TRUE, color |-> "white"],
                     alignment |-> [horizontal |-> "center"],
                     wrap |-> [strategy |-> "WRAP"],
                     rotation |-> [angle |-> 45]]}
      BorderOpts == {EmptyObject,
                     [border |-> Border([top |-> BorderSideA])],
                     [border |-> Border([bottom |-> BorderSideB])]}
      SizeOpts == {EmptyObject, [width |-> Just(100)],
                   [width |-> Just(200), height |-> Just(30)]}
  IN  {Spread(Spread(bg, pt), Spread(bd, sz)) :
         bg \in BgOpts, pt \in PaintOpts, bd \in BorderOpts, sz \in SizeOpts}

OuterStyleArgs ==
  {NULL, [height |-> Just(50)],
   [backgroundColor |-> Just("blue"), font |-> [bold |-> TRUE, italic |-> TRUE],
    border |-> Border([bottom |-> BorderSideA, left |-> BorderSideB]),
    width |-> Just(300)]}

\* `style: new Style(a)`, or no style prop when a is NULL
StyleProp(a) == IF a = NULL THEN EmptyObject ELSE [style |-> Style(a)]

\* HStack(outer) > VStack(inner) > Cell(leaf)
StyleChain(outer, inner, leaf) ==
  HStack(Spread(StyleProp(outer),
    [children |->
       <<VStack(Spread(StyleProp(inner),
           [children |-> <<Cell(Spread(StyleProp(leaf),
                                       [type |-> Text("x")]))>>]))>>]))

\* Cells with content, notes, spans and style
StyledCandidates ==
  << [value |-> "Open", style |-> Style([backgroundColor |-> Just("green")])],
     [value |-> "Closed",
      style |-> Style([backgroundColor |-> Just("red"),
                       font |-> [color |-> "white"]])] >>

ContentCells ==
  LET Types == {[type |-> Text("x")],
                [type |-> Dropdown([values |-> StyledCandidates])]}
      Notes == {EmptyObject, [note |-> "n"]}
      Styles == {EmptyObject,
                 [style |-> Style([width |-> Just(100), height |-> Just(30),
                                   rotation |-> [angle |-> 45],
                                   border |-> Border([top |-> BorderSideA,
                                                      left |-> BorderSideA])])]}
  IN  {Cell(Spread(Spread(t, n), Spread(st, [colSpan |-> c, rowSpan |-> r]))) :
         t \in Types, n \in Notes, st \in Styles,
         r \in 1..MaxSpan, c \in 1..MaxSpan}

ContentTrees ==
  {HStack([children |-> ch]) : ch \in SeqsUpTo(ContentCells, MaxChildren)}
    \cup {VStack([children |-> ch]) : ch \in SeqsUpTo(ContentCells, MaxChildren)}

\* a container of the given kind without a style
Stack(kind, children) ==
  IF kind = "HStack" THEN HStack([children |-> children])
  ELSE VStack([children |-> children])

StackKinds == {"HStack", "VStack"}

\* an HStack of leaves
RowTrees == {HStack([children |-> ch]) : ch \in SeqsUpTo(SpanCells, MaxRow)}

\* trees without a leaf
RECURSIVE NoLeafTrees(_)
NoLeafTrees(d) ==
  IF d = 0 THEN {Stack(k, <<>>) : k \in StackKinds}
  ELSE {Stack(k, ch) : k \in StackKinds,
                       ch \in SeqsUpTo(NoLeafTrees(d - 1), MaxChildren)}

\* a content descriptor where a layout node is expected
InvalidNode == Text("x")

\* trees with children that are not layout nodes (and trees without any)
FaultyTrees ==
  LET Low == {Leaf(1, 1), InvalidNode}
      Sub == Low \cup {Leaf(2, 1)}
               \cup {Stack(k, ch) : k \in StackKinds, ch \in SeqsUpTo(Low, 2)}
  IN  {InvalidNode}
        \cup {Stack(k, ch) : k \in StackKinds, ch \in SeqsUpTo(Sub, 2)}

\* Dropdown leaves: plain candidates, one styled candidate, three of them
ThreeCandidates ==
  << [value |-> "Low", style |-> Style([backgroundColor |-> Just("green")])],
     [value |-> "Mid", style |-> Style([backgroundColor |-> Just("yellow")])],
     [value |-> "High",
      style |-> Style([backgroundColor |-> Just("red"),
                       font |-> [color |-> "white"]])] >>

DropdownTypes ==
  {Dropdown([values |-> <<[str |-> "a"], [str |-> "b"]>>]),
   Dropdown([values |-> SubSeq(ThreeCandidates, 1, 1)]),
   Dropdown([values |-> ThreeCandidates, selected |-> Just("Mid")])}

DropCells ==
  {Cell([type |-> t, colSpan |-> c, rowSpan |-> r]) :
     t \in DropdownTypes, r \in 1..MaxSpan, c \in 1..MaxSpan}

\* Dropdown leaves side by side, and Dropdown leaves placed after an empty
\* container next to a spanning leaf
BindingTrees ==
  {Stack(k, ch) : k \in StackKinds, ch \in SeqsUpTo(DropCells, 2) \ {<<>>}}
    \cup {Stack(k0, <<Stack(k1, <<Leaf(1, 1), b>>),
                      Stack(k2, <<Stack(k3, <<>>), d>>)>>) :
            k0 \in StackKinds, k1 \in StackKinds, k2 \in StackKinds,
            k3 \in StackKinds, b \in {Leaf(2, 1), Leaf(1, 2)}, d \in DropCells}

\* leaves with borders
BorderArgs ==
  {EmptyObject,
   [top |-> BorderSideA],
   [left |-> BorderSideA],
   [left |-> BorderSideA, right |-> BorderSideA],
   [top |-> BorderSideA, bottom |-> BorderSideB],
   [top |-> BorderSideA, bottom |-> BorderSideA,
    left |-> BorderSideA, right |-> BorderSideA]}

BorderCells ==
  {Cell([type |-> Text("x"), style |-> Style([border |-> Border(b)]),
         colSpan |-> c, rowSpan |-> r]) :
     b \in BorderArgs, r \in 1..MaxSpan, c \in 1..MaxSpan}

\* bordered leaves side by side, and bordered leaves around an empty container
BorderTrees ==
  {Stack(k, ch) : k \in StackKinds, ch \in SeqsUpTo(BorderCells, 2) \ {<<>>}}
    \cup {VStack([children |->
              <<HStack([children |-> <<Leaf(1, 1), b>>]),
                VStack([children |-> <<VStack([children |-> <<>>]), d>>])>>]) :
            b \in {x \in BorderCells : x.props.rowSpan = 2 /\ x.props.colSpan = 1},
            d \in {x \in BorderCells : x.props.colSpan = 2 /\ x.props.rowSpan = 1}}

\* leaves with a rotation, a width or a height
FormatStyleArgs ==
  {EmptyObject,
   [rotation |-> [angle |-> 45]],
   [width |-> Just(120)],
   [height |-> Just(40)],
   [width |-> Just(80), height |-> Just(40)]}

FormatCells ==
  {Cell([type |-> Text("x"), style |-> Style(a), colSpan |-> c, rowSpan |-> r]) :
     a \in FormatStyleArgs, r \in 1..MaxSpan, c \in 1..MaxSpan}

\* such leaves side by side, and a leaf placed below a column of two leaves
\* after an empty container
FormatTrees ==
  {Stack(k, ch) : k \in StackKinds, ch \in SeqsUpTo(FormatCells, 2) \ {<<>>}}
    \cup {VStack([children |->
              <<HStack([children |->
                  <<Leaf(1, 1), VStack([children |-> <<Leaf(1, 1), c>>])>>]),
                VStack([children |-> <<VStack([children |-> <<>>]), d>>])>>]) :
            c \in {x \in FormatCells : x.props.rowSpan = 1 /\ x.props.colSpan = 1},
            d \in {Leaf(1, 1), Leaf(1, 2)}}

\* leaves with a note, a span, a Dropdown, a width, a rotation and a border
SurfaceCells ==
  {Cell([type |-> Text("x")]),
   Cell([type |-> Dropdown([values |-> StyledCandidates]), colSpan |-> 2]),
   Cell([type |-> Text("y"), note |-> "n", rowSpan |-> 2,
         style |-> Style([width |-> Just(100), rotation |-> [angle |-> 45],
                          border |-> Border([top |-> BorderSideA])])])}

SurfaceTrees ==
  {Stack(k, ch) : k \in StackKinds, ch \in SeqsUpTo(SurfaceCells, 2) \ {<<>>}}

(***************************************************************************)
(* The target sheet and the state before render is called.                 *)
(***************************************************************************)
EmptySheet ==
  [calls |-> <<>>, rules |-> <<>>, failAt |-> 0, raised |-> FALSE, cells |-> <<>>]

\* a rule installed on the sheet before the render
OldRule ==
  [whenTextEqualTo |-> "Old", background |-> Just("grey"), fontColor |-> "black",
   ranges |-> <<Range(9, 9, 1, 1)>>]

Sheets == {EmptySheet, [EmptySheet EXCEPT !.rules = <<OldRule>>]}

\* the observed coordinates of a sheet whose content is observed
WindowSize == 4

Window == (1..WindowSize) \X (1..WindowSize)

SurfaceProps == ClearedProps \cup {"notes", "validations"}

OldLine == [color |-> "old", thickness |-> "old"]

\* content left on the sheet by an earlier use of it
OldValue(k) ==
  CASE k \in {"wrapStrategies", "numberFormats"} -> "old"
    [] k = "rotations" -> 0 - 90
    [] k = "borders" -> [top |-> OldLine, bottom |-> OldLine,
                         left |-> OldLine, right |-> OldLine]
    [] OTHER -> Just("old")

\* a sheet with earlier content everywhere, and one rule
DirtySheet ==
  [EmptySheet EXCEPT
     !.rules = <<OldRule>>,
     !.cells = [p \in Window |-> [k \in SurfaceProps |-> OldValue(k)]]]

\* a sheet as the caller leaves it after clearing it entirely
Cleared(sh) ==
  [sh EXCEPT
     !.calls = <<>>,
     !.rules = <<>>,
     !.cells = [p \in DOMAIN sh.cells |->
                  [k \in SurfaceProps |->
                     IF k \in ClearedProps THEN Blank(k) ELSE NULL]]]

CleanSheet == Cleared(DirtySheet)

\* a sheet that raises at its k-th call
FailingSheets == {[DirtySheet EXCEPT !.failAt = k] : k \in 1..MaxFailAt}

\* the trees and sheets of the scenarios
CaseInputs ==
  (RowTrees \X {EmptySheet})
    \cup (NoLeafTrees(MaxDepth) \X {EmptySheet, DirtySheet})
    \cup (FaultyTrees \X {DirtySheet})
    \cup (SurfaceTrees \X (FailingSheets \cup {CleanSheet}))
    \cup (BindingTrees \X {EmptySheet})
    \cup (BorderTrees \X {DirtySheet})
    \cup (FormatTrees \X {EmptySheet})

Fresh ==
  /\ pc = "start"
  /\ error = NULL
  /\ occupancyMap = {}
  /\ resolvedCells = <<>>
  /\ passes = <<>>
  /\ grids = NULL
  /\ renders = 0
  /\ firstRender = NULL

Init ==
  /\ root \in LayoutTrees
  /\ given = <<>>
  /\ sheet = EmptySheet
  /\ Fresh

InitStyle ==
  /\ \E outer \in OuterStyleArgs, inner \in StyleArgs \cup {NULL},
        leaf \in StyleArgs \cup {NULL} :
       /\ root = StyleChain(outer, inner, leaf)
       /\ given = <<outer, inner, leaf>>
  /\ sheet = EmptySheet
  /\ Fresh

InitCommit ==
  /\ root \in ContentTrees
  /\ given = <<>>
  /\ sheet \in Sheets
  /\ Fresh

\* new Renderer(targetSheet), keeping the occupancy set and the cells of the
\* renderer before it
RendererShared(targetSheet) ==
  [sheet |-> targetSheet, occupancyMap |-> occupancyMap,
   resolvedCells |-> resolvedCells]

\* new Renderer(targetSheet)
Renderer(targetSheet) ==
  [sheet |-> targetSheet, occupancyMap |-> {}, resolvedCells |-> <<>>]

\* a throw out of Renderer.render before _commit: nothing is assigned to
\* resolvedCells and no call has been issued
RenderThrew(renderer, thrown, node, occ, laid) ==
  /\ pc' = "raised"
  /\ error' = thrown
  /\ root' = node
  /\ resolvedCells' = renderer.resolvedCells
  /\ occupancyMap' = occ
  /\ passes' = laid
  /\ grids' = NULL
  /\ sheet' = renderer.sheet

\* this.resolvedCells = r.resolved; this._commit() has returned or raised
RenderCommitted(r, done) ==
  /\ pc' = IF done.sheet.raised THEN "raised" ELSE "done"
  /\ error' = IF done.sheet.raised THEN Just("SurfaceError") ELSE NULL
  /\ root' = r.node
  /\ resolvedCells' = r.resolved
  /\ occupancyMap' = r.occ
  /\ passes' = r.passes
  /\ grids' = IF done.sheet.raised THEN NULL ELSE done.grids
  /\ sheet' = done.sheet

\* rootComponent.render(..) has returned r or thrown
RenderLaidOut(renderer, r) ==
  IF r.error # NULL
    THEN RenderThrew(renderer, r.error, r.node, r.occ, r.passes)
    ELSE RenderCommitted(r, commit(renderer.sheet, r.resolved))

\* the render with the root placed at row 2
RendererRenderFromRowTwo(renderer) ==
  IF root.kind \notin {"HStack", "VStack", "Cell"}
    THEN RenderThrew(renderer, Just("Error"), root, renderer.occupancyMap, <<>>)
    ELSE RenderLaidOut(renderer,
           ComponentRender(root, renderer.occupancyMap, [row |-> 2, col |-> 1],
                           Style(EmptyObject)))

\* Renderer.render(rootComponent)
RendererRender(renderer) ==
  IF root.kind \notin {"HStack", "VStack", "Cell"}
    THEN \* not an instance of Component
         RenderThrew(renderer, Just("Error"), root, renderer.occupancyMap, <<>>)
    ELSE RenderLaidOut(renderer,
           ComponentRender(root, renderer.occupancyMap, [row |-> 1, col |-> 1],
                           Style(EmptyObject)))

\* render(rootComponent, targetSheet): new Renderer(targetSheet).render(root)
Render ==
  /\ pc = "start"
  /\ renders' = renders + 1
  /\ RendererRender(Renderer(sheet))
  /\ firstRender' =
       IF renders = 0
         THEN [resolvedCells |-> resolvedCells', grids |-> grids',
               calls |-> sheet'.calls, rules |-> sheet'.rules,
               cells |-> sheet'.cells, before |-> sheet]
         ELSE firstRender
  /\ UNCHANGED given

\* the caller clears the target entirely before it calls render again
ClearTarget ==
  /\ pc = "done"
  /\ renders < MaxRenders
  /\ sheet' = Cleared(sheet)
  /\ pc' = "start"
  /\ UNCHANGED <<root, given, error, occupancyMap, resolvedCells, passes, grids,
                 renders, firstRender>>

InitCases ==
  /\ \/ /\ \E input \in CaseInputs :
             /\ root = input[1]
             /\ sheet = input[2]
        /\ given = <<>>
     \/ /\ \E outer \in OuterStyleArgs, inner \in {NULL, [width |-> Just(100)]},
              leaf \in {NULL, [border |-> Border([top |-> BorderSideA])]} :
             /\ root = StyleChain(outer, inner, leaf)
             /\ given = <<outer, inner, leaf>>
        /\ sheet = CleanSheet
  /\ Fresh

Next == Render

NextAgain == Render \/ ClearTarget

Spec == Init /\ [][Next]_vars

SpecStyle == InitStyle /\ [][Next]_vars

SpecCommit == InitCommit /\ [][Next]_vars

SpecCases == InitCases /\ [][NextAgain]_vars

(***************************************************************************)
(* Shorthands for the claims.                                              *)
(***************************************************************************)
Done == pc = "done"

CellSpan(c) ==
  SpanOf(c.row, c.col, c.descriptor.props.rowSpan, c.descriptor.props.colSpan)

FinalStyle(i) == resolvedCells[i].descriptor.props.style.props

(***************************************************************************)
(* C1  No-overlap: the full spans of the resolved cells of one render are  *)
(* pairwise disjoint, for every tree.                                      *)
(***************************************************************************)
NoOverlap ==
  \A i, j \in 1..Len(resolvedCells) :
    i # j => CellSpan(resolvedCells[i]) \cap CellSpan(resolvedCells[j]) = {}

(***************************************************************************)
(* C2  Forward-only placement: in every HStack pass the cells of a later   *)
(* child lie strictly to the right of the cells of every earlier child,    *)
(* and in every VStack pass strictly below them.                           *)
(***************************************************************************)
ForwardOnlyPlacement ==
  \A p \in 1..Len(passes) :
    \A i, j \in 1..Len(passes[p].steps) :
      i < j =>
        \A a \in 1..Len(passes[p].steps[i].rects) :
          \A b \in 1..Len(passes[p].steps[j].rects) :
            LET ra == passes[p].steps[i].rects[a]
                rb == passes[p].steps[j].rects[b]
            IN  IF passes[p].direction = "horizontal"
                  THEN ra.col + ra.colSpan - 1 < rb.col
                  ELSE ra.row + ra.rowSpan - 1 < rb.row

(***************************************************************************)
(* C3  Span collision deflection.                                          *)
(***************************************************************************)
DeflectionScenario ==
  VStack([children |->
    <<HStack([children |-> <<Leaf(2, 1), Leaf(1, 1)>>]),
      HStack([children |-> <<Leaf(1, 1), Leaf(1, 1)>>])>>])

IsRowsOfLeaves(node) ==
  /\ node.kind = "VStack"
  /\ \A k \in 1..Len(node.props.children) :
       LET row == node.props.children[k]
       IN  /\ row.kind = "HStack"
           /\ Len(row.props.children) >= 1
           /\ \A i \in 1..Len(row.props.children) :
                row.props.children[i].kind = "Cell"

RECURSIVE LeavesBefore(_, _)
LeavesBefore(node, k) ==
  IF k <= 1 THEN 0
  ELSE LeavesBefore(node, k - 1) + Len(node.props.children[k - 1].props.children)

RECURSIVE RowsBefore(_, _)
RowsBefore(node, k) ==
  IF k <= 1 THEN 0
  ELSE LET row == node.props.children[k - 1].props.children
           tallest == CHOOSE m \in {row[i].props.rowSpan : i \in 1..Len(row)} :
                        \A i \in 1..Len(row) : m >= row[i].props.rowSpan
       IN  RowsBefore(node, k - 1) + tallest

PaintKeys ==
  {<<"font", k>> : k \in DOMAIN DefaultsFONT}
    \cup {<<"alignment", k>> : k \in DOMAIN DefaultsALIGNMENT}
    \cup {<<"wrap", "strategy">>, <<"rotation", "angle">>}

DefaultsOf(group) ==
  CASE group = "font" -> DefaultsFONT
    [] group = "alignment" -> DefaultsALIGNMENT
    [] group = "wrap" -> DefaultsWRAP
    [] group = "rotation" -> DefaultsROTATION

\* the literal a sets property group.key
Sets(a, group, key) ==
  /\ a # NULL
  /\ group \in DOMAIN a
  /\ key \in DOMAIN a[group]

\* the value the cascade gives to group.key: leaf first, then the containers
\* from the nearest to the outermost
Cascaded(group, key) ==
  IF Sets(given[3], group, key) THEN given[3][group][key]
  ELSE IF Sets(given[2], group, key) THEN given[2][group][key]
  ELSE IF Sets(given[1], group, key) THEN given[1][group][key]
  ELSE DefaultsOf(group)[key]

SetsBackground(a) == a # NULL /\ "backgroundColor" \in DOMAIN a

CascadedBackground ==
  IF SetsBackground(given[3]) THEN given[3].backgroundColor
  ELSE IF SetsBackground(given[2]) THEN given[2].backgroundColor
  ELSE IF SetsBackground(given[1]) THEN given[1].backgroundColor
  ELSE NULL

StyleCascade ==
  Done =>
    /\ \A gk \in PaintKeys :
         FinalStyle(1)[gk[1]][gk[2]] = Cascaded(gk[1], gk[2])
    /\ FinalStyle(1).backgroundColor = CascadedBackground

(***************************************************************************)
(* C5  Width/height precedence: merge(parent, child).width is the parent's *)
(* width when it is not null, else the child's (same for height); the      *)
(* final width/height of a leaf is that of the outermost ancestor that     *)
(* sets one, and the leaf's own only when no ancestor does.                *)
(***************************************************************************)
GivenStyles(ks) == {Style(given[k]) : k \in {j \in ks : given[j] # NULL}}

Dimension(a, key) == IF a = NULL THEN NULL ELSE Get(a, key, NULL)

OutermostDimension(key) ==
  IF Dimension(given[1], key) # NULL THEN Dimension(given[1], key)
  ELSE IF Dimension(given[2], key) # NULL THEN Dimension(given[2], key)
  ELSE Dimension(given[3], key)

BorderSideIndependence ==
  Done =>
    \A parent \in GivenStyles({2}) : \A child \in GivenStyles({3}) :
      \A side \in {"top", "bottom", "left", "right"} :
        mergeStyles(parent, child).props.border.props[side] =
          IF child.props.border.props[side] # NULL
            THEN child.props.border.props[side]
            ELSE parent.props.border.props[side]

(***************************************************************************)
(* C7  Commit ordering: in a render that resolves at least one cell the    *)
(* bounding box is cleared first, then come the grid setters, then the     *)
(* dimensions, then the rotation, then the borders, then the conditional   *)
(* format rules, then the merges; no call of an earlier phase follows a    *)
(* call of a later one.                                                    *)
(***************************************************************************)
Phase(op) ==
  CASE op = "getRange" -> 0
    [] op = "clear" -> 1
    [] op \in {"setColumnWidth", "setRowHeight"} -> 3
    [] op = "setTextRotations" -> 4
    [] op = "setBorder" -> 5
    [] op = "setConditionalFormatRules" -> 6
    [] op = "merge" -> 7
    [] OTHER -> 2

PhasesIssued == {Phase(sheet.calls[i].op) : i \in 1..Len(sheet.calls)}

CommitOrdering ==
  (Done /\ Len(resolvedCells) > 0) =>
    LET calls == sheet.calls
        box == calculateBounds(resolvedCells)
    IN  /\ \E i \in 1..Len(calls) :
             /\ calls[i].op = "clear"
             /\ calls[i].at = Range(box.minRow, box.minCol, box.numRows, box.numCols)
        /\ {2} \subseteq PhasesIssued
        /\ \A i, j \in 1..Len(calls) :
             (i < j /\ Phase(calls[i].op) # 0 /\ Phase(calls[j].op) # 0)
               => Phase(calls[i].op) <= Phase(calls[j].op)

CommitOrderingWitness ==
  /\ Done
  /\ Len(resolvedCells) > 0
  /\ PhasesIssued = 0..7

(***************************************************************************)
(* C8  Conditional-format rules are appended: a render that collects a     *)
(* non-empty list of rules leaves on the sheet the rules it held before    *)
(* followed by the collected ones, installed by a single call.             *)
(***************************************************************************)
RulesAppended ==
  [][(/\ pc = "start" /\ pc' = "done"
      /\ grids' # NULL
      /\ Len(grids'.conditionalFormats) > 0)
       => /\ sheet'.rules = sheet.rules \o grids'.conditionalFormats
          /\ Cardinality({i \in 1..Len(sheet'.calls) :
                            sheet'.calls[i].op = "setConditionalFormatRules"}) = 1
    ]_vars

(***************************************************************************)
(* C9  Span blanking of values: for every resolved cell the value grid     *)
(* holds the cell's value at the top-left sub-cell of its span and the     *)
(* empty string at every other sub-cell of the span.                       *)
(***************************************************************************)
GridAt(grid, cell, rOffset, cOffset) ==
  LET box == calculateBounds(resolvedCells)
  IN  grid[cell.row - box.minRow + rOffset][cell.col - box.minCol + cOffset]

SpanBlankingValues ==
  (Done /\ grids # NULL) =>
    \A i \in 1..Len(resolvedCells) :
      LET cell == resolvedCells[i]
          props == cell.descriptor.props
      IN  \A rOffset \in 0..(props.rowSpan - 1) :
            \A cOffset \in 0..(props.colSpan - 1) :
              GridAt(grids.values, cell, rOffset, cOffset) =
                IF rOffset = 0 /\ cOffset = 0 THEN Just(props.type.props.value)
                ELSE Just("")

(***************************************************************************)
(* C10  Span blanking of notes: for every resolved cell that spans more    *)
(* than one sub-cell and has a non-empty note, the note grid holds the     *)
(* note only at the top-left sub-cell; every other sub-cell of the span    *)
(* holds an empty placeholder.                                             *)
(***************************************************************************)
SpanBlankingNotes ==
  (Done /\ grids # NULL) =>
    \A i \in 1..Len(resolvedCells) :
      LET cell == resolvedCells[i]
          props == cell.descriptor.props
      IN  ((props.rowSpan > 1 \/ props.colSpan > 1) /\ props.note # "") =>
            \A rOffset \in 0..(props.rowSpan - 1) :
              \A cOffset \in 0..(props.colSpan - 1) :
                IF rOffset = 0 /\ cOffset = 0
                  THEN GridAt(grids.notes, cell, rOffset, cOffset) = Just(props.note)
                  ELSE GridAt(grids.notes, cell, rOffset, cOffset)
                         \in {Just(""), NULL}

(***************************************************************************)
(* Shorthands for the trees.                                               *)
(***************************************************************************)
IsContainer(node) == node.kind \in {"HStack", "VStack"}

IsLayoutNode(node) == node.kind \in {"HStack", "VStack", "Cell"}

RECURSIVE NoLeaf(_)
NoLeaf(node) ==
  /\ IsContainer(node)
  /\ \A k \in 1..Len(node.props.children) : NoLeaf(node.props.children[k])

RECURSIVE HasInvalidNode(_)
HasInvalidNode(node) ==
  \/ ~IsLayoutNode(node)
  \/ /\ IsContainer(node)
     /\ \E k \in 1..Len(node.props.children) :
          HasInvalidNode(node.props.children[k])

RECURSIVE LeafCount(_)
RECURSIVE LeafCountOf(_, _)
LeafCountOf(children, k) ==
  IF k > Len(children) THEN 0
  ELSE LeafCount(children[k]) + LeafCountOf(children, k + 1)

LeafCount(node) ==
  IF node.kind = "Cell" THEN 1
  ELSE IF IsContainer(node) THEN LeafCountOf(node.props.children, 1)
  ELSE 0

(***************************************************************************)
(* C11  Empty tree is a no-op: for a tree without a leaf, render returns   *)
(* without an error, resolves no cell and issues no call on the sheet,     *)
(* which is left exactly as it was.                                        *)
(***************************************************************************)
EmptyTreeNoOp ==
  [][(pc = "start" /\ NoLeaf(root))
       => /\ pc' = "done"
          /\ error' = NULL
          /\ resolvedCells' = <<>>
          /\ sheet' = sheet
    ]_vars

EmptyTreeNoOpWitness ==
  /\ Done
  /\ renders = 1
  /\ NoLeaf(root)
  /\ Len(root.props.children) = 2
  /\ Len(root.props.children[2].props.children) > 0
  /\ resolvedCells = <<>>
  /\ sheet = DirtySheet

(***************************************************************************)
(* C12  Resolver errors leave no partial writes: when a container child is *)
(* not a layout node, render raises and no call has been issued on the     *)
(* sheet; whenever a render issues a call, the layout of the whole tree    *)
(* has completed (one resolved cell per leaf).                             *)
(***************************************************************************)
ResolverErrorsLeaveNoWrites ==
  [][pc = "start"
       => /\ HasInvalidNode(root)
               => /\ pc' = "raised"
                  /\ error' # NULL
                  /\ sheet' = sheet
          /\ sheet'.calls # sheet.calls
               => /\ ~HasInvalidNode(root)
                  /\ Len(resolvedCells') = LeafCount(root)
    ]_vars

\* the invalid child is met after a leaf has been laid out
ResolverErrorsLeaveNoWritesWitness ==
  /\ pc = "raised"
  /\ error = Just("TypeError")
  /\ occupancyMap # {}
  /\ LeafCount(root) >= 2
  /\ sheet = DirtySheet

(***************************************************************************)
(* C13  Commit-phase failure is neither retried nor rolled back: when the  *)
(* k-th call of a render raises, render raises, the k-th call is the last  *)
(* call issued (nothing is issued again), and the effects of the calls     *)
(* before it are on the sheet (the rules installed, the box cleared, the   *)
(* values written), while the failing call has had no effect.              *)
(***************************************************************************)
IssuedBefore(op, k) == \E i \in 1..(k - 1) : sheet.calls[i].op = op

TopLeftValuesWritten ==
  \A i \in 1..Len(resolvedCells) :
    LET c == resolvedCells[i]
        p == <<c.row, c.col>>
    IN  p \in DOMAIN sheet.cells
          => sheet.cells[p]["values"] = Just(c.descriptor.props.type.props.value)

CommitFailureNotRetried ==
  (pc \in {"done", "raised"} /\ sheet.failAt > 0) =>
    LET k == sheet.failAt
    IN  IF Len(sheet.calls) < k
          THEN pc = "done" /\ error = NULL
          ELSE /\ pc = "raised"
               /\ error = Just("SurfaceError")
               /\ Len(sheet.calls) = k
               /\ sheet.raised
               /\ IF IssuedBefore("setConditionalFormatRules", k)
                    THEN sheet.rules # <<OldRule>> /\ sheet.rules # <<>>
                    ELSE sheet.rules = <<OldRule>>
               /\ IF IssuedBefore("clear", k)
                    THEN sheet.cells[<<1, 1>>]["backgrounds"] # OldValue("backgrounds")
                    ELSE sheet.cells = DirtySheet.cells
               /\ sheet.calls[k].op = "setNotes"
                    => sheet.cells[<<1, 1>>]["notes"] = OldValue("notes")
               /\ IF IssuedBefore("setValues", k)
                    THEN TopLeftValuesWritten
                    ELSE \A p \in DOMAIN sheet.cells :
                           sheet.cells[p]["values"] \in {NULL, Just("old")}

\* setNotes raises after setValues has written the values
CommitFailureNotRetriedWitness ==
  /\ pc = "raised"
  /\ error = Just("SurfaceError")
  /\ sheet.calls[sheet.failAt].op = "setNotes"
  /\ Len(resolvedCells) = 2
  /\ TopLeftValuesWritten
  /\ sheet.cells[<<1, 1>>]["notes"] = Just("old")

(***************************************************************************)
(* C14  Idempotent re-render: a second render of the same tree, after the  *)
(* target has been cleared, resolves the same cells, builds the same grids *)
(* and issues the same calls as the first; when the first render also      *)
(* started from a cleared target, the sheet ends with the same content and *)
(* rules.  The second render starts from an empty occupancy set: the set   *)
(* it leaves is the union of the spans of its own cells.                   *)
(***************************************************************************)
IdempotentRerender ==
  (Done /\ renders >= 2) =>
    /\ resolvedCells = firstRender.resolvedCells
    /\ grids = firstRender.grids
    /\ sheet.calls = firstRender.calls
    /\ occupancyMap = UNION {CellSpan(resolvedCells[i]) : i \in 1..Len(resolvedCells)}
    /\ firstRender.before = Cleared(firstRender.before)
         => /\ sheet.cells = firstRender.cells
            /\ sheet.rules = firstRender.rules

IdempotentRerenderWitness ==
  /\ Done
  /\ renders = 2
  /\ Len(resolvedCells) = 2
  /\ firstRender.before = CleanSheet
  /\ Len(sheet.calls) > 20
  /\ sheet.rules # <<>>

(***************************************************************************)
(* C15  Directive binding: a Dropdown leaf with k styled candidates        *)
(* contributes exactly k conditional-format rules, one per candidate in    *)
(* candidate order, each bound to the rectangle (row, col, rowSpan,        *)
(* colSpan) at which the leaf was resolved; there is no other rule.        *)
(***************************************************************************)
ResolvedRect(i) ==
  LET c == resolvedCells[i]
  IN  [row |-> c.row, col |-> c.col,
       numRows |-> c.descriptor.props.rowSpan,
       numCols |-> c.descriptor.props.colSpan]

CandidatesOf(i) ==
  LET type == resolvedCells[i].descriptor.props.type
  IN  IF type.kind = "Dropdown" /\ type.props.isObjectArray
        THEN type.props.values ELSE <<>>

RECURSIVE StyledCandidateCount(_)
StyledCandidateCount(i) ==
  IF i = 0 THEN 0
  ELSE Len(CandidatesOf(i)) + StyledCandidateCount(i - 1)

DirectiveBinding ==
  (Done /\ grids # NULL) =>
    /\ Len(grids.conditionalFormats) = StyledCandidateCount(Len(resolvedCells))
    /\ \A i \in 1..Len(resolvedCells) :
         LET BoundHere(rule) == rule.ranges = <<ResolvedRect(i)>>
             rules == SelectSeq(grids.conditionalFormats, BoundHere)
             candidates == CandidatesOf(i)
         IN  /\ Len(rules) = Len(candidates)
             /\ \A j \in 1..Len(rules) :
                  /\ rules[j].whenTextEqualTo = candidates[j].value
                  /\ rules[j].background =
                       candidates[j].style.props.backgroundColor
                  /\ rules[j].fontColor = candidates[j].style.props.font.color

\* three styled candidates on a spanning leaf that the layout placed away
\* from the origin, below a spanning neighbour
DirectiveBindingWitness ==
  /\ Done
  /\ grids # NULL
  /\ Len(resolvedCells) = 3
  /\ Len(CandidatesOf(3)) = 3
  /\ ResolvedRect(3) = [row |-> 2, col |-> 1, numRows |-> 1, numCols |-> 2]
  /\ Len(grids.conditionalFormats) = 3
  /\ sheet.rules = grids.conditionalFormats

(***************************************************************************)
(* C16  Linear row: an HStack of leaves rendered from (1,1) places leaf i  *)
(* on row 1 at column 1 + the sum of the colSpans of the leaves before it; *)
(* HStack([Leaf(colSpan=2), Leaf(), Leaf()]) yields columns 1, 3, 4.       *)
(***************************************************************************)
RECURSIVE ColSpansBefore(_, _)
ColSpansBefore(children, i) ==
  IF i <= 1 THEN 0
  ELSE children[i - 1].props.colSpan + ColSpansBefore(children, i - 1)

IsRowOfLeaves(node) ==
  /\ node.kind = "HStack"
  /\ \A k \in 1..Len(node.props.children) :
       node.props.children[k].kind = "Cell"

LinearRow ==
  (Done /\ IsRowOfLeaves(root)) =>
    /\ Len(resolvedCells) = Len(root.props.children)
    /\ \A i \in 1..Len(resolvedCells) :
         /\ resolvedCells[i].row = 1
         /\ resolvedCells[i].col = 1 + ColSpansBefore(root.props.children, i)
         /\ resolvedCells[i].descriptor.props.colSpan =
              root.props.children[i].props.colSpan

LinearRowWitness ==
  /\ Done
  /\ root = HStack([children |-> <<Leaf(1, 2), Leaf(1, 1), Leaf(1, 1)>>])
  /\ Len(resolvedCells) = 3
  /\ resolvedCells[1].col = 1
  /\ resolvedCells[2].col = 3
  /\ resolvedCells[3].col = 4

(***************************************************************************)
(* C17  Full overwrite of the bounding box: after a successful render,     *)
(* every coordinate inside the bounding box of the resolved cells holds    *)
(* what this render computed for it, whatever the sheet held before: each  *)
(* bulk-written property is the entry of its grid, each border side is     *)
(* undrawn or the line of the border grid.  A coordinate of the box that   *)
(* no resolved span covers has a blank value, no note, no validation and   *)
(* no border.                                                              *)
(***************************************************************************)
BoundingBox == calculateBounds(resolvedCells)

InBoundingBox(p) ==
  InRange(p, Range(BoundingBox.minRow, BoundingBox.minCol,
                   BoundingBox.numRows, BoundingBox.numCols))

Covered(p) == \E i \in 1..Len(resolvedCells) : p \in CellSpan(resolvedCells[i])

Computed(name, p) ==
  grids[name][p[1] - BoundingBox.minRow][p[2] - BoundingBox.minCol]

FullOverwrite ==
  (Done /\ grids # NULL) =>
    \A p \in DOMAIN sheet.cells :
      InBoundingBox(p) =>
        /\ \A k \in 1..Len(StyleSetters) :
             sheet.cells[p][StyleSetters[k][2]] = Computed(StyleSetters[k][2], p)
        /\ sheet.cells[p]["rotations"] = Computed("rotations", p)
        /\ \A side \in {"top", "bottom", "left", "right"} :
             \/ sheet.cells[p]["borders"][side] = NULL
             \/ sheet.cells[p]["borders"][side] = Computed("borders", p)[side]
        /\ ~Covered(p) =>
             /\ sheet.cells[p]["values"] = NULL
             /\ sheet.cells[p]["notes"] = NULL
             /\ sheet.cells[p]["validations"] = NULL
             /\ sheet.cells[p]["borders"] = NoBorders

\* a sheet with earlier content, two leaves whose box has uncovered
\* coordinates, and a border drawn by this render
FullOverwriteWitness ==
  /\ Done
  /\ grids # NULL
  /\ firstRender.before = DirtySheet
  /\ renders = 1
  /\ \E p \in DOMAIN sheet.cells : InBoundingBox(p) /\ ~Covered(p)
  /\ \E p \in DOMAIN sheet.cells :
       InBoundingBox(p) /\ sheet.cells[p]["borders"]["top"] = BorderSideA
  /\ \E p \in DOMAIN sheet.cells :
       ~InBoundingBox(p) /\ sheet.cells[p] = DirtySheet.cells[p]

(***************************************************************************)
(* C18  Render does not mutate its input: when render returns or raises,   *)
(* the input tree, with every Style, Border and content descriptor in it,  *)
(* has the field values it had before the call.                            *)
(***************************************************************************)
InputNotMutated == [][root' = root]_vars

\* the merged style of the resolved cell differs from the style of the leaf
\* of the tree, which is as it was constructed
InputNotMutatedWitness ==
  /\ Done
  /\ Len(given) = 3
  /\ given[2] # NULL
  /\ given[3] # NULL
  /\ root = StyleChain(given[1], given[2], given[3])
  /\ root.props.children[1].props.children[1].props.style = Style(given[3])
  /\ FinalStyle(1).width = Just(100)
  /\ resolvedCells[1].descriptor.props.style # Style(given[3])

(***************************************************************************)
(* C19  Border run-length encoding: in each grid row the sub-cells are     *)
(* grouped into maximal runs of horizontally adjacent sub-cells with equal *)
(* effective (top, bottom, left, right) borders, and exactly one setBorder *)
(* call is issued per run for each side present in the run's borders, and  *)
(* no other setBorder call.                                                *)
(***************************************************************************)
BorderSides == {"top", "bottom", "left", "right"}

\* the lines to draw at grid row r, column c: a side that is null or false,
\* or a coordinate without borders, draws nothing
EffectiveBorders(r, c) ==
  LET b == grids.borders[r][c]
  IN  [side \in BorderSides |->
         IF Truthy(b) /\ Truthy(b[side]) THEN b[side] ELSE NULL]

IsSetBorder(call) == call.op = "setBorder"

SetBorderCalls == SelectSeq(sheet.calls, IsSetBorder)

\* the columns c..d of grid row r are a maximal run of equal borders
IsMaximalRun(r, c, d) ==
  /\ \A x \in c..d : EffectiveBorders(r, x) = EffectiveBorders(r, c)
  /\ c > 0 => EffectiveBorders(r, c - 1) # EffectiveBorders(r, c)
  /\ d < BoundingBox.numCols - 1
       => EffectiveBorders(r, d + 1) # EffectiveBorders(r, c)

BorderRunLengthEncoding ==
  (Done /\ grids # NULL) =>
    /\ \A k \in 1..Len(SetBorderCalls) :
         LET call == SetBorderCalls[k]
             r == call.at.row - BoundingBox.minRow
             c == call.at.col - BoundingBox.minCol
             d == c + call.at.numCols - 1
         IN  /\ call.at.numRows = 1
             /\ call.arg.side \in BorderSides
             /\ IsMaximalRun(r, c, d)
             /\ EffectiveBorders(r, c)[call.arg.side] =
                  [color |-> call.arg.color, thickness |-> call.arg.thickness]
             /\ \A j \in 1..Len(SetBorderCalls) :
                  j # k => SetBorderCalls[j] # call
    /\ \A r \in 0..(BoundingBox.numRows - 1) :
         \A c \in 0..(BoundingBox.numCols - 1) :
           \A side \in BorderSides :
             EffectiveBorders(r, c)[side] # NULL =>
               \E k \in 1..Len(SetBorderCalls) :
                 LET call == SetBorderCalls[k]
                 IN  /\ call.arg.side = side
                     /\ call.at.row = BoundingBox.minRow + r
                     /\ call.at.col <= BoundingBox.minCol + c
                     /\ BoundingBox.minCol + c < call.at.col + call.at.numCols

(***************************************************************************)
(* C20  Per-edge border split: for a resolved cell whose final style sets  *)
(* border sides, the border grid gives the top side only to the sub-cells  *)
(* of the span's first row, the bottom side only to those of its last row, *)
(* the left side only to those of its first column and the right side      *)
(* only to those of its last column: no sub-cell has a side on an edge     *)
(* interior to the span.                                                   *)
(***************************************************************************)
OnEdge(side, rOffset, cOffset, rowSpan, colSpan) ==
  CASE side = "top"    -> rOffset = 0
    [] side = "bottom" -> rOffset = rowSpan - 1
    [] side = "left"   -> cOffset = 0
    [] side = "right"  -> cOffset = colSpan - 1

PerEdgeBorderSplit ==
  (Done /\ grids # NULL) =>
    \A i \in 1..Len(resolvedCells) :
      LET cell == resolvedCells[i]
          props == cell.descriptor.props
          border == props.style.props.border.props
      IN  (\E side \in BorderSides : Truthy(border[side])) =>
          \A rOffset \in 0..(props.rowSpan - 1) :
            \A cOffset \in 0..(props.colSpan - 1) :
              \A side \in BorderSides :
                ~OnEdge(side, rOffset, cOffset, props.rowSpan, props.colSpan)
                  => ~Truthy(GridAt(grids.borders, cell, rOffset, cOffset)[side])

(***************************************************************************)
(* C21  Merges: a render issues exactly one merge call for each resolved   *)
(* cell with rowSpan > 1 or colSpan > 1, on that cell's span rectangle,    *)
(* and none for 1x1 cells; every merge call comes after every other call   *)
(* of the render on the sheet.                                             *)
(***************************************************************************)
IsMerge(call) == call.op = "merge"

MergeCalls == SelectSeq(sheet.calls, IsMerge)

Spans(i) ==
  \/ resolvedCells[i].descriptor.props.rowSpan > 1
  \/ resolvedCells[i].descriptor.props.colSpan > 1

MergesLast ==
  Done =>
    /\ \A i \in 1..Len(resolvedCells) :
         Cardinality({k \in 1..Len(MergeCalls) : MergeCalls[k].at = ResolvedRect(i)})
           = IF Spans(i) THEN 1 ELSE 0
    /\ \A k \in 1..Len(MergeCalls) :
         \E i \in 1..Len(resolvedCells) : MergeCalls[k].at = ResolvedRect(i)
    /\ \A i, j \in 1..Len(sheet.calls) :
         (i < j /\ IsMerge(sheet.calls[i])) => IsMerge(sheet.calls[j])

\* a row-spanning and a column-spanning leaf, merged after the borders
MergesLastWitness ==
  /\ Done
  /\ Len(MergeCalls) = 2
  /\ MergeCalls[1].at.numRows = 2 /\ MergeCalls[1].at.numCols = 1
  /\ MergeCalls[2].at.numRows = 1 /\ MergeCalls[2].at.numCols = 2
  /\ SetBorderCalls # <<>>
  /\ Len(resolvedCells) = 2

(***************************************************************************)
(* C22  Rotation skip: the bulk rotation call is issued, once and on the   *)
(* range of the bounding box, if and only if at least one resolved cell    *)
(* has a non-zero rotation angle.                                          *)
(***************************************************************************)
IsSetTextRotations(call) == call.op = "setTextRotations"

RotationCalls == SelectSeq(sheet.calls, IsSetTextRotations)

SomeCellRotated ==
  \E i \in 1..Len(resolvedCells) : FinalStyle(i).rotation.angle # 0

RotationSkip ==
  (Done /\ grids # NULL) =>
    IF SomeCellRotated
      THEN /\ Len(RotationCalls) = 1
           /\ RotationCalls[1].at =
                Range(BoundingBox.minRow, BoundingBox.minCol,
                      BoundingBox.numRows, BoundingBox.numCols)
      ELSE RotationCalls = <<>>

(***************************************************************************)
(* C23  Sparse dimensions: a render issues at most one setColumnWidth call *)
(* per column and at most one setRowHeight call per row; a column (row)    *)
(* receives a call exactly when some resolved cell that starts in it has a *)
(* non-null final width (height).                                          *)
(***************************************************************************)
DimensionCalls(op) ==
  LET IsOp(call) == call.op = op
  IN  SelectSeq(sheet.calls, IsOp)

ColumnsWithWidth ==
  {resolvedCells[i].col : i \in {k \in 1..Len(resolvedCells) :
                                  FinalStyle(k).width # NULL}}

RowsWithHeight ==
  {resolvedCells[i].row : i \in {k \in 1..Len(resolvedCells) :
                                  FinalStyle(k).height # NULL}}

OncePerKey(calls, keys) ==
  /\ {calls[k].at[1] : k \in 1..Len(calls)} = keys
  /\ Len(calls) = Cardinality(keys)

SparseDimensions ==
  Done =>
    /\ OncePerKey(DimensionCalls("setColumnWidth"), ColumnsWithWidth)
    /\ OncePerKey(DimensionCalls("setRowHeight"), RowsWithHeight)

\* two leaves with a width in the same column, one of them with a height
SparseDimensionsWitness ==
  /\ Done
  /\ Len(resolvedCells) = 2
  /\ resolvedCells[1].col = resolvedCells[2].col
  /\ FinalStyle(1).width # NULL /\ FinalStyle(2).width # NULL
  /\ FinalStyle(1).width # FinalStyle(2).width
  /\ Len(DimensionCalls("setColumnWidth")) = 1
  /\ Len(DimensionCalls("setRowHeight")) = 1

(***************************************************************************)
(* C24  Occupancy set: during a layout the occupancy set only grows, and   *)
(* at every point it is the union of the full spans of the cells resolved  *)
(* so far: it starts empty, the rendering of each child adds exactly the   *)
(* spans of the cells the child resolves, and the next child starts from   *)
(* the set the previous one left.                                          *)
(***************************************************************************)
SpansOf(rects) ==
  UNION {SpanOf(rects[k].row, rects[k].col, rects[k].rowSpan, rects[k].colSpan) :
           k \in 1..Len(rects)}

OccupancyIsUnionOfSpans ==
  /\ \A p \in 1..Len(passes) :
       \A i \in 1..Len(passes[p].steps) :
         LET step == passes[p].steps[i]
         IN  /\ step.occ \subseteq step.occAfter
             /\ step.occAfter = step.occ \cup SpansOf(step.rects)
             /\ i > 1 => step.occ = passes[p].steps[i - 1].occAfter
  /\ Done => occupancyMap = SpansOf(Rects(resolvedCells))
  /\ (Done /\ passes # <<>> /\ passes[Len(passes)].steps # <<>>)
       => passes[Len(passes)].steps[1].occ = {}

\* a second child laid out on a set that holds the span of the first
OccupancyIsUnionOfSpansWitness ==
  /\ Done
  /\ Len(resolvedCells) = 3
  /\ Cardinality(occupancyMap) = 7
  /\ \E p \in 1..Len(passes) :
       /\ Len(passes[p].steps) = 2
       /\ Cardinality(passes[p].steps[2].occ) = 4
       /\ Cardinality(passes[p].steps[2].occAfter) = 7

(***************************************************************************)
(* C25  Cursor moves forward only: in an HStack pass the cursor column     *)
(* after rendering a child is strictly greater than the column at which    *)
(* the child was rendered, for every child, a container that resolves no   *)
(* cell included; in a VStack pass the same holds of the cursor row.       *)
(***************************************************************************)
CursorForwardOnly ==
  \A p \in 1..Len(passes) :
    \A i \in 1..Len(passes[p].steps) :
      LET step == passes[p].steps[i]
      IN  IF passes[p].direction = "horizontal"
            THEN step.after.col > step.start.col
            ELSE step.after.row > step.start.row

(***************************************************************************)
(* C26  Collision skipping is never triggered in trees without empty       *)
(* containers: when every container of the tree resolves at least one      *)
(* cell, the occupancy check never finds the cursor coordinate occupied:   *)
(* every child is rendered exactly at the cursor left by its previous      *)
(* sibling, the first child at the start position of its container.        *)
(***************************************************************************)
RECURSIVE EveryContainerResolves(_)
EveryContainerResolves(node) ==
  \/ node.kind = "Cell"
  \/ /\ IsContainer(node)
     /\ LeafCount(node) > 0
     /\ \A k \in 1..Len(node.props.children) :
          EveryContainerResolves(node.props.children[k])

RunsDrawPerCellEdges ==
  (Done /\ grids # NULL) =>
    \A p \in DOMAIN sheet.cells :
      InBoundingBox(p) =>
        sheet.cells[p]["borders"]
          = EffectiveBorders(p[1] - BoundingBox.minRow, p[2] - BoundingBox.minCol)

(***************************************************************************)
(* C28  Writes stay inside the bounding box: every range a render          *)
(* addresses by clear, a grid setter, setBorder or merge lies within the   *)
(* bounding box of the resolved cells, setColumnWidth and setRowHeight are *)
(* called for columns and rows of the box only, and nothing outside the    *)
(* box is changed: the observed coordinates outside it keep every property *)
(* they had before the render, and a conditional format installed before   *)
(* the render on coordinates outside the box is still installed.           *)
(***************************************************************************)
RangeInBox(range) ==
  /\ BoundingBox.minRow <= range.row
  /\ range.row + range.numRows <= BoundingBox.minRow + BoundingBox.numRows
  /\ BoundingBox.minCol <= range.col
  /\ range.col + range.numCols <= BoundingBox.minCol + BoundingBox.numCols

RangeOutsideBox(range) ==
  \A r \in range.row..(range.row + range.numRows - 1) :
    \A c \in range.col..(range.col + range.numCols - 1) : ~InBoundingBox(<<r, c>>)

CallInsideBox(call) ==
  CASE call.op = "setColumnWidth" ->
         call.at[1] \in BoundingBox.minCol..(BoundingBox.minCol + BoundingBox.numCols - 1)
    [] call.op = "setRowHeight" ->
         call.at[1] \in BoundingBox.minRow..(BoundingBox.minRow + BoundingBox.numRows - 1)
    [] call.op = "setConditionalFormatRules" ->
         \A k \in 1..Len(call.arg) :
           \A j \in 1..Len(call.arg[k].ranges) : RangeInBox(call.arg[k].ranges[j])
    [] OTHER -> RangeInBox(call.at)

CallsInsideBox == \A k \in 1..Len(sheet.calls) : CallInsideBox(sheet.calls[k])

CellsOutsideBoxKept ==
  \A p \in DOMAIN sheet.cells :
    ~InBoundingBox(p) => sheet.cells[p] = firstRender.before.cells[p]

RulesOutsideBoxKept ==
  \A k \in 1..Len(firstRender.before.rules) :
    (\A j \in 1..Len(firstRender.before.rules[k].ranges) :
       RangeOutsideBox(firstRender.before.rules[k].ranges[j]))
      => \E i \in 1..Len(sheet.rules) : sheet.rules[i] = firstRender.before.rules[k]

RangesInsideBox ==
  (pc # "start" /\ renders = 1 /\ resolvedCells # <<>>) =>
    (CallsInsideBox /\ CellsOutsideBoxKept)

WritesInsideBox ==
  (pc # "start" /\ renders = 1 /\ resolvedCells # <<>>) =>
    (CallsInsideBox /\ CellsOutsideBoxKept /\ RulesOutsideBoxKept)

(***************************************************************************)
(* C29  Bounding box origin: whenever a render resolves at least one cell, *)
(* the first resolved cell is at (1,1), the computed bounding box has      *)
(* minRow = 1 and minCol = 1, and every range the commit clears or writes  *)
(* as a whole starts at row 1, column 1.                                   *)
(***************************************************************************)
IsBulkCall(call) ==
  call.op \in {"clear", "setTextRotations"} \cup {StyleSetters[k][1] : k \in 1..Len(StyleSetters)}

BoundingBoxOrigin ==
  (pc # "start" /\ resolvedCells # <<>>) =>
    /\ resolvedCells[1].row = 1
    /\ resolvedCells[1].col = 1
    /\ BoundingBox.minRow = 1
    /\ BoundingBox.minCol = 1
    /\ \A k \in 1..Len(sheet.calls) :
         IsBulkCall(sheet.calls[k]) =>
           (sheet.calls[k].at.row = 1 /\ sheet.calls[k].at.col = 1)

\* a tree of nested containers whose cells reach row 3, committed
BoundingBoxOriginWitness ==
  /\ Done
  /\ Len(resolvedCells) >= 3
  /\ Len(passes) >= 2
  /\ BoundingBox.numRows = 3
  /\ \E k \in 1..Len(sheet.calls) :
       /\ sheet.calls[k].op = "clear"
       /\ sheet.calls[k].at = Range(1, 1, 3, BoundingBox.numCols)

(***************************************************************************)
(* C30  One resolved cell per leaf, in document order: the list of         *)
(* resolved cells a layout returns has exactly one entry for each Cell     *)
(* node of the tree, in the order of the depth-first, left-to-right        *)
(* traversal of the tree, and each entry carries the content, the note,    *)
(* the rowSpan and the colSpan of its Cell node unchanged.                 *)
(***************************************************************************)
RECURSIVE Leaves(_)
RECURSIVE LeavesFrom(_, _)

\* the Cell nodes below the children k.. of a container, left to right
LeavesFrom(children, k) ==
  IF k > Len(children) THEN <<>>
  ELSE Leaves(children[k]) \o LeavesFrom(children, k + 1)

\* the Cell nodes of a tree in depth-first order
Leaves(node) ==
  IF node.kind = "Cell" THEN <<node>>
  ELSE IF IsContainer(node) THEN LeavesFrom(node.props.children, 1)
  ELSE <<>>

OneCellPerLeaf ==
  Done =>
    /\ Len(resolvedCells) = Len(Leaves(root))
    /\ \A i \in 1..Len(resolvedCells) :
         LET entry == resolvedCells[i].descriptor
             leaf == Leaves(root)[i]
         IN  /\ entry.kind = "Cell"
             /\ entry.props.type = leaf.props.type
             /\ entry.props.note = leaf.props.note
             /\ entry.props.rowSpan = leaf.props.rowSpan
             /\ entry.props.colSpan = leaf.props.colSpan

\* three leaves below nested containers: a plain one, a spanning one and a
\* drop-down, in that order
OneCellPerLeafWitness ==
  /\ Done
  /\ Len(passes) >= 3
  /\ Len(resolvedCells) = 3
  /\ resolvedCells[1].descriptor.props.type.kind = "Text"
  /\ resolvedCells[2].descriptor.props.rowSpan = 2
  /\ resolvedCells[3].descriptor.props.type.kind = "Dropdown"
  /\ resolvedCells[3].descriptor.props.rowSpan = 1

=============================================================================
